---------------------------- MODULE Spec2Model ----------------------------
(***************************************************************************)
(* Marketing Statement Classifier (streamlit_app.py).                      *)
(*                                                                         *)
(* Text is a sequence of one-character strings.  Characters outside ASCII  *)
(* are written by code point: "U+2014" is the em dash, "U+0130" the        *)
(* capital I with dot above, "U+0307" the combining dot above.             *)
(*                                                                         *)
(* A cell value is a record [k, s]: k is the Python type of the cell       *)
(* ("str", "int", "bool", "nan", "list") and s its payload: the characters *)
(* of a str, the decimal digits of an int, the characters of True/False,   *)
(* nothing for NaN, the label names of a list.                             *)
(*                                                                         *)
(* A DataFrame is a record [columns, rows]: columns is the sequence of     *)
(* column names, rows the sequence of rows, each a function from column    *)
(* name to cell value.  DataFrames live in a heap (a sequence of tables);  *)
(* a reference is an index into the heap, 0 is None.                       *)
(***************************************************************************)
EXTENDS Integers, Sequences, FiniteSets, TLC

VARIABLES pc, uploaded_file, heap, df_input, df_output, screen,
          shown_input, shown_output, counts, download, classify_calls

vars == <<pc, uploaded_file, heap, df_input, df_output, screen,
          shown_input, shown_output, counts, download, classify_calls>>

Range(s) == { s[i] : i \in DOMAIN s }

(***************************************************************************)
(* Bounds of the model.                                                    *)
(***************************************************************************)
MaxRows == 2        \* short tables have 0..MaxRows rows
MaxTail == 1        \* long tables have PreviewRows + 1..MaxTail rows

(***************************************************************************)
(* dictionaries: label -> set of phrases; DictKeys is the insertion order  *)
(* that iterating the dict follows.                                        *)
(***************************************************************************)
urgency_marketing ==
    { <<"l","i","m","i","t","e","d">>,
      <<"l","i","m","i","t","e","d"," ","t","i","m","e">>,
      <<"l","i","m","i","t","e","d"," ","r","u","n">>,
      <<"l","i","m","i","t","e","d"," ","e","d","i","t","i","o","n">>,
      <<"o","r","d","e","r"," ","n","o","w">>,
      <<"l","a","s","t"," ","c","h","a","n","c","e">>,
      <<"h","u","r","r","y">>,
      <<"w","h","i","l","e"," ","s","u","p","p","l","i","e","s"," ","l","a","s","t">>,
      <<"b","e","f","o","r","e"," ","t","h","e","y","'","r","e"," ","g","o","n","e">>,
      <<"s","e","l","l","i","n","g"," ","o","u","t">>,
      <<"s","e","l","l","i","n","g"," ","f","a","s","t">>,
      <<"a","c","t"," ","n","o","w">>,
      <<"d","o","n","'","t"," ","w","a","i","t">>,
      <<"t","o","d","a","y"," ","o","n","l","y">>,
      <<"e","x","p","i","r","e","s"," ","s","o","o","n">>,
      <<"f","i","n","a","l"," ","h","o","u","r","s">>,
      <<"a","l","m","o","s","t"," ","g","o","n","e">> }

exclusive_marketing ==
    { <<"e","x","c","l","u","s","i","v","e">>,
      <<"e","x","c","l","u","s","i","v","e","l","y">>,
      <<"e","x","c","l","u","s","i","v","e"," ","o","f","f","e","r">>,
      <<"e","x","c","l","u","s","i","v","e"," ","d","e","a","l">>,
      <<"m","e","m","b","e","r","s"," ","o","n","l","y">>,
      <<"v","i","p">>,
      <<"s","p","e","c","i","a","l"," ","a","c","c","e","s","s">>,
      <<"i","n","v","i","t","a","t","i","o","n"," ","o","n","l","y">>,
      <<"p","r","e","m","i","u","m">>,
      <<"p","r","i","v","i","l","e","g","e","d">>,
      <<"l","i","m","i","t","e","d"," ","a","c","c","e","s","s">>,
      <<"s","e","l","e","c","t"," ","c","u","s","t","o","m","e","r","s">>,
      <<"i","n","s","i","d","e","r">>,
      <<"p","r","i","v","a","t","e"," ","s","a","l","e">>,
      <<"e","a","r","l","y"," ","a","c","c","e","s","s">> }

DictKeys == <<"urgency_marketing", "exclusive_marketing">>

dictionaries ==
    [ label \in Range(DictKeys) |->
        IF label = "urgency_marketing" THEN urgency_marketing
                                       ELSE exclusive_marketing ]

\* The characters of each label, as str() of a list of labels spells them.
label_chars ==
    [ label \in Range(DictKeys) |->
        IF label = "urgency_marketing"
        THEN <<"u","r","g","e","n","c","y","_","m","a","r","k","e","t","i","n","g">>
        ELSE <<"e","x","c","l","u","s","i","v","e","_","m","a","r","k","e","t","i","n","g">> ]

\* df.head() shows 5 rows by default; the classified preview shows 10
HeadRows == 5
PreviewRows == 10

\* "Exclusive offer U+2014 act now, limited supply!"
T_both == <<"E","x","c","l","u","s","i","v","e"," ","o","f","f","e","r"," ","U+2014"," ","a","c","t"," ","n","o","w",","," ","l","i","m","i","t","e","d"," ","s","u","p","p","l","y","!">>
\* "Limited time offer, act now!"
T_urgent == <<"L","i","m","i","t","e","d"," ","t","i","m","e"," ","o","f","f","e","r",","," ","a","c","t"," ","n","o","w","!">>
\* "Join our exclusive VIP members only event"
T_excl == <<"J","o","i","n"," ","o","u","r"," ","e","x","c","l","u","s","i","v","e"," ","V","I","P"," ","m","e","m","b","e","r","s"," ","o","n","l","y"," ","e","v","e","n","t">>
\* "Our new product line is now available"
T_none == <<"O","u","r"," ","n","e","w"," ","p","r","o","d","u","c","t"," ","l","i","n","e"," ","i","s"," ","n","o","w"," ","a","v","a","i","l","a","b","l","e">>
\* "equivip"  (a phrase inside a larger word)
T_inword == <<"e","q","u","i","v","i","p">>
\* "VU+0130P"  (lower() turns U+0130 into two characters)
T_dotted == <<"V","U+0130","P">>
\* "data.csv"
N_data == <<"d","a","t","a",".","c","s","v">>
\* "report.v2.csv"
N_report == <<"r","e","p","o","r","t",".","v","2",".","c","s","v">>
\* ".csv"
N_hidden == <<".","c","s","v">>
\* "in/Q1.CSV"
N_dir == <<"i","n","/","Q","1",".","C","S","V">>
\* "data_classified.csv"
N_data_classified == <<"d","a","t","a","_","c","l","a","s","s","i","f","i","e","d",".","c","s","v">>
\* "report.v2_classified.csv"
N_report_classified == <<"r","e","p","o","r","t",".","v","2","_","c","l","a","s","s","i","f","i","e","d",".","c","s","v">>
\* "_classified.csv"
SUFFIX == <<"_","c","l","a","s","s","i","f","i","e","d",".","c","s","v">>

(***************************************************************************)
(* str.lower(): ASCII capitals map to their small letters, U+0130 to "i"   *)
(* followed by U+0307, every other character of the model to itself.       *)
(***************************************************************************)
UpperChars == <<"A","B","C","D","E","F","G","H","I","J","K","L","M",
                "N","O","P","Q","R","S","T","U","V","W","X","Y","Z">>
LowerChars == <<"a","b","c","d","e","f","g","h","i","j","k","l","m",
                "n","o","p","q","r","s","t","u","v","w","x","y","z">>

LowerChar(c) ==
    IF c \in Range(UpperChars)
    THEN <<LowerChars[CHOOSE i \in DOMAIN UpperChars : UpperChars[i] = c]>>
    ELSE IF c = "U+0130" THEN <<"i", "U+0307">>
    ELSE <<c>>

RECURSIVE Lower(_)
Lower(s) == IF s = <<>> THEN <<>> ELSE LowerChar(Head(s)) \o Lower(Tail(s))

\* ", ".join of the quoted labels of a list, as repr() of a list writes them
RECURSIVE ReprItems(_)
ReprItems(l) ==
    IF l = <<>> THEN <<>>
    ELSE <<"'">> \o label_chars[Head(l)] \o <<"'">>
         \o (IF Len(l) > 1 THEN <<",", " ">> ELSE <<>>) \o ReprItems(Tail(l))

\* str(value)
Str(v) ==
    CASE v.k = "nan"  -> <<"n","a","n">>
      [] v.k = "list" -> <<"[">> \o ReprItems(v.s) \o <<"]">>
      [] OTHER        -> v.s

StrVal(s)  == [k |-> "str", s |-> s]
IntVal(s)  == [k |-> "int", s |-> s]
BoolVal(b) == [k |-> "bool",
               s |-> IF b THEN <<"T","r","u","e">> ELSE <<"F","a","l","s","e">>]
ListVal(l) == [k |-> "list", s |-> l]
NaN        == [k |-> "nan", s |-> <<>>]

\* t.startswith(kw, i - 1): kw lies in t at position i
MatchAt(t, kw, i) ==
    /\ i + Len(kw) - 1 <= Len(t)
    /\ \A j \in 1..Len(kw) : t[i + j - 1] = kw[j]

\* kw in t (str.__contains__): try the start positions left to right
RECURSIVE ContainsFrom(_, _, _)
ContainsFrom(kw, t, i) ==
    IF i + Len(kw) - 1 > Len(t) THEN FALSE
    ELSE MatchAt(t, kw, i) \/ ContainsFrom(kw, t, i + 1)

ContainsPrefixOnly(kw, t) == MatchAt(t, kw, 1)
Contains(kw, t) == ContainsFrom(kw, t, 1)

\* the loop of classify_statement over dictionaries.items(), from key i on
RECURSIVE ClassifyFrom(_, _)
ClassifyFrom(text_lower, i) ==
    IF i > Len(DictKeys) THEN <<>>
    ELSE LET label    == DictKeys[i]
             keywords == dictionaries[label]
         IN  (IF \E kw \in keywords : Contains(kw, text_lower)
              THEN <<label>> ELSE <<>>)
             \o ClassifyFrom(text_lower, i + 1)

classify_statement_no_lower(text) == ClassifyFrom(Str(text), 1)
classify_statement(text) ==
    LET text_lower == Lower(Str(text))
    IN  ClassifyFrom(text_lower, 1)

(***************************************************************************)
(* DataFrames.                                                             *)
(***************************************************************************)
NRows(t) == Len(t.rows)

\* df[c]: the values of column c, in row order
Column(t, c) == [i \in 1..NRows(t) |-> t.rows[i][c]]

\* df[c] = vals: overwrite column c in place if it exists, else append it
SetColumn(t, c, vals) ==
    [columns |-> IF c \in Range(t.columns) THEN t.columns
                                           ELSE Append(t.columns, c),
     rows    |-> [i \in 1..NRows(t) |->
                    [k \in (DOMAIN t.rows[i]) \cup {c} |->
                        IF k = c THEN vals[i] ELSE t.rows[i][k]]]]

\* df.head(n)
DfHead(t, n) ==
    [columns |-> t.columns,
     rows    |-> SubSeq(t.rows, 1, IF NRows(t) < n THEN NRows(t) ELSE n)]

\* df.copy(): a new table in the heap with the same columns and values
DfCopyAlias(h, r) == [heap |-> h, ref |-> r]
DfCopy(h, r) == [heap |-> Append(h, h[r]), ref |-> Len(h) + 1]

\* "Statement" in df.columns: a test of the schema, not of the rows
HasStatementPerRow(t) == \A i \in 1..NRows(t) : "Statement" \in DOMAIN t.rows[i]
HasStatement(t) == "Statement" \in Range(t.columns)

\* the loop of enrich_dataframe over the labels, from key i on, on table t
RECURSIVE OneHotFrom(_, _)
OneHotLateBinding(t, i) ==
    IF i > Len(DictKeys) THEN t
    ELSE LET cats == Column(t, "labels")
         IN  OneHotFrom(
                 SetColumn(t, DictKeys[i],
                     [r \in 1..NRows(t) |->
                         BoolVal(DictKeys[Len(DictKeys)] \in Range(cats[r].s))]),
                 i + 1)
OneHotFrom(t, i) ==
    IF i > Len(DictKeys) THEN t
    ELSE LET label == DictKeys[i]
             cats  == Column(t, "labels")
         IN  OneHotFrom(
                 SetColumn(t, label,
                     [r \in 1..NRows(t) |-> BoolVal(label \in Range(cats[r].s))]),
                 i + 1)

(***************************************************************************)
(* enrich_dataframe(df) on heap h.  The result is [raised, heap, ref,      *)
(* calls]: the exception raised ("" if none), the heap after the call,     *)
(* the returned reference (0 when raised) and the number of calls made to  *)
(* classify_statement.                                                     *)
(***************************************************************************)
enrich_dataframe_first_column(h, df0) ==
    IF ~HasStatement(h[df0])
    THEN [raised |-> "ValueError", heap |-> h, ref |-> 0, calls |-> 0]
    ELSE LET cp == DfCopy(h, df0)
             df == cp.ref
             t0 == cp.heap[df]
         IN  IF "Statement" \notin Range(t0.columns)
             THEN \* df["Statement"] on a table without that column
                  [raised |-> "KeyError", heap |-> cp.heap, ref |-> 0,
                   calls |-> 0]
             ELSE LET labels == [r \in 1..NRows(t0) |->
                         ListVal(classify_statement(t0.rows[r][t0.columns[1]]))]
                      t1 == SetColumn(t0, "labels", labels)
                      t2 == OneHotFrom(t1, 1)
                  IN  [raised |-> "",
                       heap   |-> [cp.heap EXCEPT ![df] = t2],
                       ref    |-> df,
                       calls  |-> NRows(t0)]
enrich_dataframe(h, df0) ==
    IF ~HasStatement(h[df0])
    THEN [raised |-> "ValueError", heap |-> h, ref |-> 0, calls |-> 0]
    ELSE LET cp == DfCopy(h, df0)
             df == cp.ref
             t0 == cp.heap[df]
         IN  IF "Statement" \notin Range(t0.columns)
             THEN \* df["Statement"] on a table without that column
                  [raised |-> "KeyError", heap |-> cp.heap, ref |-> 0,
                   calls |-> 0]
             ELSE LET labels == [r \in 1..NRows(t0) |->
                         ListVal(classify_statement(t0.rows[r]["Statement"]))]
                      t1 == SetColumn(t0, "labels", labels)
                      t2 == OneHotFrom(t1, 1)
                  IN  [raised |-> "",
                       heap   |-> [cp.heap EXCEPT ![df] = t2],
                       ref    |-> df,
                       calls  |-> NRows(t0)]

(***************************************************************************)
(* Export.                                                                 *)
(***************************************************************************)
\* str.rfind(c), 1-based: the last position of c in s, 0 if there is none
RFind(s, c) ==
    IF \E i \in DOMAIN s : s[i] = c
    THEN CHOOSE i \in DOMAIN s : s[i] = c /\ \A j \in DOMAIN s : s[j] = c => j <= i
    ELSE 0

\* Path(p).name for a relative POSIX path without a trailing separator
PathName(p) == SubSeq(p, RFind(p, "/") + 1, Len(p))

\* Path(p).stem: the name minus its last suffix; a dot that leads or ends
\* the name starts no suffix
PathStemFirstDot(p) ==
    LET name == PathName(p)
        i    == IF "." \in Range(name)
                THEN CHOOSE k \in DOMAIN name :
                        name[k] = "." /\ \A j \in 1..(k - 1) : name[j] # "."
                ELSE 0
    IN  IF 1 < i /\ i < Len(name) THEN SubSeq(name, 1, i - 1) ELSE name
PathStem(p) ==
    LET name == PathName(p)
        i    == RFind(name, ".")
    IN  IF 1 < i /\ i < Len(name) THEN SubSeq(name, 1, i - 1) ELSE name

\* the text of one cell in df.to_csv(): NaN is the empty field
CellText(v) == IF v.k = "nan" THEN <<>> ELSE Str(v)

\* df.to_csv(index=False): the header and one line of cell texts per row, in
\* column order (the fields are kept apart, not joined by commas)
to_csv(t) ==
    [header |-> t.columns,
     lines  |-> [i \in 1..NRows(t) |->
                   [j \in 1..Len(t.columns) |-> CellText(t.rows[i][t.columns[j]])]]]

get_csv_download(t, original_name) ==
    [csv_bytes |-> to_csv(t),
     new_name  |-> PathStem(original_name) \o SUFFIX]

(***************************************************************************)
(* The files a user can upload.  pandas' parser is not part of the         *)
(* program: a file's bytes are represented by what read_csv makes of them, *)
(* a parse error or a table.                                               *)
(***************************************************************************)
\* (read_csv reads an empty field as NaN, never as the empty string)
Texts == {T_both, T_urgent, T_excl, T_none, T_inword, T_dotted}

StatementValues ==
    {StrVal(t) : t \in Texts} \cup {IntVal(<<"2","0","2","4">>), NaN}

\* the statements of tables that have other columns too
FewStatementValues == {StrVal(T_both), StrVal(T_urgent), StrVal(T_none), NaN}

Schemas ==
    { <<"Statement">>, <<"id", "Statement">>, <<"id">>,
      <<"Statement", "labels">>, <<"urgency_marketing", "Statement">> }

\* the values the Statement cells of a table with columns cols range over
StatementValuesOf(cols) ==
    IF cols = <<"Statement">> THEN StatementValues
    ELSE IF "Statement" \in Range(cols) THEN FewStatementValues
    ELSE {NaN}

\* the value of every cell outside the Statement column
OtherValue(c) ==
    CASE c = "id"     -> IntVal(<<"7">>)
      [] c = "labels" -> StrVal(<<"x">>)
      [] OTHER        -> StrVal(<<"h","i","g","h">>)

RowOf(cols, v) ==
    [c \in Range(cols) |-> IF c = "Statement" THEN v ELSE OtherValue(c)]

ShortTables ==
    UNION { { [columns |-> cols,
               rows    |-> [i \in 1..n |-> RowOf(cols, vs[i])]]
              : vs \in [1..n -> StatementValuesOf(cols)] }
            : cols \in Schemas, n \in 0..MaxRows }

\* tables longer than the preview: PreviewRows rows of a, then a tail of b
LongTables ==
    { [columns |-> <<"Statement">>,
       rows    |-> [i \in 1..(PreviewRows + n) |->
                      RowOf(<<"Statement">>, IF i <= PreviewRows THEN a ELSE b)]]
      : a \in FewStatementValues, b \in FewStatementValues, n \in 1..MaxTail }

Tables == ShortTables \cup LongTables

EmptyTable == [columns |-> <<>>, rows |-> <<>>]

FileNames == {N_data, N_report, N_hidden, N_dir}

\* The name and the content of a file are independent; every name comes with
\* every table of at most one row and with an unparsable file, and the
\* first name with every table.
UploadedFiles ==
    { [name |-> n, parses |-> TRUE, table |-> t]
        : n \in FileNames, t \in {u \in Tables : NRows(u) <= 1} }
    \cup { [name |-> N_data, parses |-> TRUE, table |-> t] : t \in Tables }
    \cup { [name |-> n, parses |-> FALSE, table |-> EmptyTable] : n \in FileNames }

\* pd.read_csv(uploaded_file): [raised, table]
read_csv(f) == [raised |-> ~f.parses, table |-> f.table]

(***************************************************************************)
(* The script, one run of it per upload.  uploaded_file, counts and        *)
(* download are <<>> while unset and a one-element sequence once set.      *)
(* screen is the sequence of elements drawn so far.                        *)
(***************************************************************************)
\* st.stop(): the run ends here
st_stop_missing(next) == next
st_stop(next) == "stopped"

Init ==
    /\ pc = "file_uploader"
    /\ uploaded_file = <<>>
    /\ heap = <<>>
    /\ df_input = 0
    /\ df_output = 0
    /\ screen = <<"title", "write">>
    /\ shown_input = <<>>
    /\ shown_output = <<>>
    /\ counts = <<>>
    /\ download = <<>>
    /\ classify_calls = 0

\* line 71 with a file chosen
Upload(f) ==
    /\ pc = "file_uploader"
    /\ uploaded_file' = <<f>>
    /\ pc' = "read_csv"
    /\ UNCHANGED <<heap, df_input, df_output, screen, shown_input,
                   shown_output, counts, download, classify_calls>>

\* lines 71, 107-108: no file chosen
NoUpload ==
    /\ pc = "file_uploader"
    /\ screen' = Append(screen, "info")
    /\ pc' = "done"
    /\ UNCHANGED <<uploaded_file, heap, df_input, df_output, shown_input,
                   shown_output, counts, download, classify_calls>>

\* lines 74-78
ReadCsv ==
    /\ pc = "read_csv"
    /\ \E res \in {read_csv(uploaded_file[1])} :
           IF res.raised
           THEN /\ screen' = Append(screen, "error_read")
                /\ pc' = st_stop("preview")
                /\ UNCHANGED <<heap, df_input>>
           ELSE /\ heap' = Append(heap, res.table)
                /\ df_input' = Len(heap) + 1
                /\ pc' = "preview"
                /\ UNCHANGED screen
    /\ UNCHANGED <<uploaded_file, df_output, shown_input, shown_output,
                   counts, download, classify_calls>>

\* lines 80-81
Preview ==
    /\ pc = "preview"
    /\ shown_input' = <<DfHead(heap[df_input], HeadRows)>>
    /\ screen' = screen \o <<"subheader_preview", "dataframe_input">>
    /\ pc' = "enrich"
    /\ UNCHANGED <<uploaded_file, heap, df_input, df_output, shown_output,
                   counts, download, classify_calls>>

\* lines 83-87; an exception other than ValueError is not caught and ends
\* the run
Enrich ==
    /\ pc = "enrich"
    /\ \E res \in {enrich_dataframe(heap, df_input)} :
           /\ heap' = res.heap
           /\ df_output' = res.ref
           /\ classify_calls' = classify_calls + res.calls
           /\ screen' = CASE res.raised = "ValueError" -> Append(screen, "error_value")
                          [] res.raised = ""           -> screen
                          [] OTHER                     -> Append(screen, "exception")
           /\ pc' = CASE res.raised = "ValueError" -> st_stop("show")
                      [] res.raised = ""           -> "show"
                      [] OTHER                     -> "crashed"
    /\ UNCHANGED <<uploaded_file, df_input, shown_input, shown_output,
                   counts, download>>

\* lines 89-90
ShowClassified ==
    /\ pc = "show"
    /\ shown_output' = <<DfHead(heap[df_output], PreviewRows)>>
    /\ screen' = screen \o <<"subheader_classified", "dataframe_output">>
    /\ pc' = "counts"
    /\ UNCHANGED <<uploaded_file, heap, df_input, df_output, shown_input,
                   counts, download, classify_calls>>

\* df[cols].sum(): per column, the number of True cells
ColumnSumsShown(t, cols) ==
    [c \in Range(cols) |->
        Cardinality({i \in 1..NRows(DfHead(t, PreviewRows)) : t.rows[i][c] = BoolVal(TRUE)})]
ColumnSums(t, cols) ==
    [c \in Range(cols) |->
        Cardinality({i \in 1..NRows(t) : t.rows[i][c] = BoolVal(TRUE)})]

\* lines 92-95
CategoryCounts ==
    /\ pc = "counts"
    /\ counts' = <<ColumnSums(heap[df_output],
                              <<"urgency_marketing", "exclusive_marketing">>)>>
    /\ screen' = screen \o <<"subheader_counts", "table_counts">>
    /\ pc' = "download"
    /\ UNCHANGED <<uploaded_file, heap, df_input, df_output, shown_input,
                   shown_output, download, classify_calls>>

\* lines 97-106
Download ==
    /\ pc = "download"
    /\ \E res \in {get_csv_download(heap[df_output], uploaded_file[1].name)} :
           download' = <<[data |-> res.csv_bytes, file_name |-> res.new_name]>>
    /\ screen' = screen \o <<"download_button", "success">>
    /\ pc' = "done"
    /\ UNCHANGED <<uploaded_file, heap, df_input, df_output, shown_input,
                   shown_output, counts, classify_calls>>

Next ==
    \/ \E f \in UploadedFiles : Upload(f)
    \/ NoUpload
    \/ ReadCsv
    \/ Preview
    \/ Enrich
    \/ ShowClassified
    \/ CategoryCounts
    \/ Download

Spec == Init /\ [][Next]_vars

(***************************************************************************)
(* Properties.                                                             *)
(***************************************************************************)
Enriched == df_output # 0
InTable  == heap[df_input]
OutTable == heap[df_output]

\* phrase kw occupies positions p .. p + Len(kw) - 1 of text t
OccursAt(kw, t, p) == SubSeq(t, p, p + Len(kw) - 1) = kw
Occurs(kw, t) == \E p \in 1..(Len(t) - Len(kw) + 1) : OccursAt(kw, t, p)

\* C1: for every statement t of an enriched table and every label L of the
\* dictionary, L is in the labels classify_statement gave t if and only if
\* some phrase of L occurs as a contiguous run of characters in the
\* lowercased text of t, whether or not the run lies inside a larger word.
C1_LabelIffPhraseOccurs ==
    Enriched =>
        \A i \in 1..NRows(OutTable) :
            \E lowered \in {Lower(Str(InTable.rows[i]["Statement"]))} :
                \A L \in DOMAIN dictionaries :
                    (L \in Range(OutTable.rows[i]["labels"].s))
                    <=> (\E kw \in dictionaries[L] : Occurs(kw, lowered))

\* a statement whose only phrase lies inside a larger word was labelled
C1_Witness ==
    /\ Enriched
    /\ \E i \in 1..NRows(OutTable) :
          /\ InTable.rows[i]["Statement"] = StrVal(T_inword)
          /\ OutTable.rows[i]["labels"] = ListVal(<<"exclusive_marketing">>)

\* the columns enrichment added, the labels list aside
NewBoolColumns == (Range(OutTable.columns) \ Range(InTable.columns)) \ {"labels"}

\* C2: enrich_dataframe keeps the number and the order of the rows, keeps
\* every original column with its name and its values, and the boolean
\* columns it adds are exactly the labels of the dictionary.
C2_PreservesOriginalColumns ==
    Enriched =>
        /\ NRows(OutTable) = NRows(InTable)
        /\ \A c \in Range(InTable.columns) :
              /\ c \in Range(OutTable.columns)
              /\ \A i \in 1..NRows(InTable) :
                    OutTable.rows[i][c] = InTable.rows[i][c]
        /\ NewBoolColumns = Range(DictKeys)

\* C3: when the table read from the file has no "Statement" column,
\* enrich_dataframe raises the missing-column ValueError, with zero rows as
\* with many, before classify_statement is called on any row and before
\* any table is built.
C3_MissingColumnRaises ==
    (df_input # 0 /\ pc \notin {"preview", "enrich"}
        /\ "Statement" \notin Range(InTable.columns))
    => /\ pc = "stopped"
       /\ screen[Len(screen)] = "error_value"
       /\ df_output = 0
       /\ classify_calls = 0
       /\ Len(heap) = 1

\* the error was raised for a table of zero rows
C3_Witness ==
    /\ pc = "stopped"
    /\ "error_value" \in Range(screen)
    /\ df_input # 0
    /\ NRows(InTable) = 0
    /\ "Statement" \notin Range(InTable.columns)

\* C4: no step changes the caller's table once it is read: an enrichment
\* that succeeds and one that fails both leave its columns, rows and
\* values as they were, and the enriched table is another table.
C4_InputNotMutated ==
    [][df_input # 0 =>
          /\ df_input' = df_input
          /\ heap'[df_input] = heap[df_input]
          /\ df_output' # df_input]_vars

\* an enrichment produced a table that differs from its input
C4_Witness ==
    /\ Enriched
    /\ df_output # df_input
    /\ NRows(InTable) > 0
    /\ OutTable # InTable

ErrorShown == "error_read" \in Range(screen) \/ "error_value" \in Range(screen)

\* every row of t has the labels list and one cell per label
FullyEnriched(t) ==
    /\ {"labels"} \cup Range(DictKeys) \subseteq Range(t.columns)
    /\ \A i \in 1..NRows(t) :
          {"labels"} \cup Range(DictKeys) \subseteq DOMAIN t.rows[i]

\* C5: a file that does not parse and a table without "Statement" each end
\* the run with an error: the error is the last thing drawn, nothing was
\* classified, and there is no enriched table, no counts and no download.
\* An enriched table, when there is one, is complete.
C5_ErrorHalts ==
    /\ ErrorShown =>
          /\ pc = "stopped"
          /\ screen[Len(screen)] \in {"error_read", "error_value"}
          /\ classify_calls = 0
          /\ df_output = 0
          /\ shown_output = <<>>
          /\ counts = <<>>
          /\ download = <<>>
    /\ (pc \notin {"file_uploader", "read_csv"} /\ uploaded_file # <<>>
            /\ ~uploaded_file[1].parses) => ErrorShown
    /\ (pc \notin {"file_uploader", "read_csv", "preview", "enrich"}
            /\ uploaded_file # <<>> /\ uploaded_file[1].parses
            /\ "Statement" \notin Range(uploaded_file[1].table.columns))
          => ErrorShown
    /\ Enriched =>
          /\ FullyEnriched(OutTable)
          /\ NRows(OutTable) = NRows(uploaded_file[1].table)
    /\ (shown_output # <<>> \/ counts # <<>> \/ download # <<>>) => Enriched

\* the run stopped on a file that did not parse
C5_Witness ==
    /\ pc = "stopped"
    /\ "error_read" \in Range(screen)
    /\ uploaded_file # <<>>
    /\ ~uploaded_file[1].parses

\* the position of label L in the iteration order of the dictionary
KeyIndex(L) == CHOOSE k \in DOMAIN DictKeys : DictKeys[k] = L

\* C6: in every row of an enriched table, the boolean column of each label
\* is true exactly when the label is in the row's labels list, and that
\* list holds labels of the dictionary only, none twice, in the
\* dictionary's iteration order.
C6_BooleansMatchLabels ==
    Enriched =>
        \A i \in 1..NRows(OutTable) :
            LET row  == OutTable.rows[i]
                cats == row["labels"].s
            IN  /\ row["labels"].k = "list"
                /\ \A L \in DOMAIN dictionaries :
                      row[L] = BoolVal(L \in Range(cats))
                /\ Range(cats) \subseteq DOMAIN dictionaries
                /\ \A a, b \in DOMAIN cats :
                      a < b => KeyIndex(cats[a]) < KeyIndex(cats[b])

\* a row with one label: that label's column is true, the other false
C6_Witness ==
    /\ Enriched
    /\ \E i \in 1..NRows(OutTable) :
          /\ OutTable.rows[i]["labels"].s = <<"exclusive_marketing">>
          /\ OutTable.rows[i]["exclusive_marketing"] = BoolVal(TRUE)
          /\ OutTable.rows[i]["urgency_marketing"] = BoolVal(FALSE)

\* the derived columns: the labels list and one column per label
DerivedColumns == {"labels"} \cup Range(DictKeys)

\* t without its derived columns
DropDerived(t) ==
    [columns |-> SelectSeq(t.columns, LAMBDA c : c \notin DerivedColumns),
     rows    |-> [i \in 1..NRows(t) |->
                    [c \in (DOMAIN t.rows[i]) \ DerivedColumns |-> t.rows[i][c]]]]

\* the outcome of enriching OutTable again after dropping its derived columns
ReEnriched == enrich_dataframe(<<DropDerived(OutTable)>>, 1)

\* C7: dropping the derived columns of an enriched table and enriching the
\* rest again succeeds and gives, row by row, the boolean columns the first
\* enrichment gave.
C7_ReEnrichSameBooleans ==
    Enriched =>
        \E re \in {ReEnriched} :
            /\ re.raised = ""
            /\ NRows(re.heap[re.ref]) = NRows(OutTable)
            /\ \A i \in 1..NRows(OutTable) : \A L \in Range(DictKeys) :
                  re.heap[re.ref].rows[i][L] = OutTable.rows[i][L]

\* an enriched table with a true boolean whose input already had a column
\* named like a derived one
C7_Witness ==
    /\ Enriched
    /\ Range(InTable.columns) \cap DerivedColumns # {}
    /\ \E i \in 1..NRows(OutTable) :
          OutTable.rows[i]["urgency_marketing"] = BoolVal(TRUE)

\* b is the final component of path p
IsBaseName(b, p) ==
    \E k \in 0..Len(p) :
        /\ b = SubSeq(p, k + 1, Len(p))
        /\ "/" \notin Range(b)
        /\ k = 0 \/ p[k] = "/"

\* stem is name without its final extension: name is stem, a dot and a
\* nonempty dot-free extension, or name has no such split and is the stem
IsStemOf(stem, name) ==
    \/ \E e \in {SubSeq(name, k, Len(name)) : k \in 1..(Len(name) + 1)} :
          /\ name = stem \o <<".">> \o e
          /\ stem # <<>>
          /\ e # <<>>
          /\ "." \notin Range(e)
    \/ /\ name = stem
       /\ \A k \in 2..(Len(name) - 1) : name[k] # "."

\* C8: the suggested filename is the base name of the uploaded file's name
\* without its final extension, followed by "_classified.csv": "data.csv"
\* gives "data_classified.csv", "report.v2.csv" gives
\* "report.v2_classified.csv".
C8_SuggestedName ==
    download # <<>> =>
        LET orig == uploaded_file[1].name
            sugg == download[1].file_name
        IN  /\ orig = N_data => sugg = N_data_classified
            /\ orig = N_report => sugg = N_report_classified
            /\ Len(sugg) >= Len(SUFFIX)
            /\ SubSeq(sugg, Len(sugg) - Len(SUFFIX) + 1, Len(sugg)) = SUFFIX
            /\ \E b \in {SubSeq(orig, k, Len(orig)) : k \in 1..(Len(orig) + 1)} :
                  /\ IsBaseName(b, orig)
                  /\ IsStemOf(SubSeq(sugg, 1, Len(sugg) - Len(SUFFIX)), b)

\* a download was offered for "report.v2.csv"
C8_Witness ==
    /\ download # <<>>
    /\ uploaded_file[1].name = N_report
    /\ download[1].file_name = N_report_classified

\* C9: the counts shown give, for every label of the dictionary and for no
\* other name, the number of rows of the whole enriched table whose
\* boolean column for that label is true.
C9_CountsAreColumnSums ==
    counts # <<>> =>
        /\ DOMAIN counts[1] = DOMAIN dictionaries
        /\ \A L \in DOMAIN dictionaries :
              counts[1][L] =
                  Cardinality({i \in 1..NRows(OutTable) :
                                  OutTable.rows[i][L].s = <<"T","r","u","e">>})

\* a count that is larger than the number of true cells among the rows shown
C9_Witness ==
    /\ counts # <<>>
    /\ shown_output # <<>>
    /\ \E L \in DOMAIN dictionaries :
          counts[1][L] >
              Cardinality({i \in 1..NRows(shown_output[1]) :
                              shown_output[1].rows[i][L] = BoolVal(TRUE)})

\* C10: a row whose Statement is "Exclusive offer U+2014 act now, limited
\* supply!" gets both boolean columns true and the labels list
\* urgency_marketing, exclusive_marketing, in that order.
C10_BothLabels ==
    Enriched =>
        \A i \in 1..NRows(OutTable) :
            InTable.rows[i]["Statement"] = StrVal(T_both) =>
                /\ OutTable.rows[i]["labels"] =
                      ListVal(<<"urgency_marketing", "exclusive_marketing">>)
                /\ OutTable.rows[i]["urgency_marketing"] = BoolVal(TRUE)
                /\ OutTable.rows[i]["exclusive_marketing"] = BoolVal(TRUE)

\* such a row was enriched
C10_Witness ==
    /\ Enriched
    /\ \E i \in 1..NRows(OutTable) :
          /\ InTable.rows[i]["Statement"] = StrVal(T_both)
          /\ OutTable.rows[i]["labels"].s =
                <<"urgency_marketing", "exclusive_marketing">>
=============================================================================
